---------------------------- MODULE Spec2Model ----------------------------
(***************************************************************************)
(* Model of the Social-Media-Analyzer single page application:             *)
(*   - LangflowClient (src/src/App.js): post, initiateSession,             *)
(*     handleStream, runFlow;                                              *)
(*   - App.handleSubmit (src/src/App.js): the chat submission handler;     *)
(*   - Dashboard (src/unnamed/part_000): loadData and the derived views    *)
(*     getStats, getPostTypeStats, getAverageEngagement.                   *)
(*                                                                         *)
(* JavaScript values are modelled as tagged records so that property       *)
(* access on a missing key (undefined), truthiness and the TypeError of a  *)
(* property access on undefined/null behave as they do in the language.    *)
(***************************************************************************)
EXTENDS Integers, Sequences, FiniteSets, TLC

(***************************************************************************)
(* Bounds of the model.                                                    *)
(***************************************************************************)
\* number of chat submissions explored
MaxSubmits == 2
\* number of server-sent events delivered to one subscription
MaxEvents == 3
\* number of data records of the CSV resource
MaxRows == 3

(***************************************************************************)
(* JavaScript values.                                                      *)
(***************************************************************************)
Undefined == [t |-> "undefined"]
Null == [t |-> "null"]
NaN == [t |-> "NaN"]
\* a string is the sequence of its pieces (characters or longer fragments)
Str(s) == [t |-> "string", v |-> s]
\* a string literal of one piece
Lit(s) == Str(<<s>>)
EmptyStr == Str(<<>>)
Num(n) == [t |-> "number", v |-> n]
Obj(f) == [t |-> "object", v |-> f]
Arr(a) == [t |-> "array", v |-> a]

\* the property map of the object literal {}
NoProps == [k \in {} |-> Undefined]

\* x.k for a value x that is neither undefined nor null
Prop(x, k) == IF x.t = "object" /\ k \in DOMAIN x.v THEN x.v[k] ELSE Undefined

\* x[i], zero based
At(x, i) == IF x.t = "array" /\ (i + 1) \in DOMAIN x.v THEN x.v[i + 1] ELSE Undefined

\* a property access on x throws a TypeError
Nullish(x) == x.t \in {"undefined", "null"}

\* ToBoolean
Truthy(x) ==
    CASE x.t = "undefined" -> FALSE
      [] x.t = "null" -> FALSE
      [] x.t = "NaN" -> FALSE
      [] x.t = "string" -> Len(x.v) # 0
      [] x.t = "number" -> x.v # 0
      [] OTHER -> TRUE

(***************************************************************************)
(* The response shapes of the remote flow service.  A component output     *)
(* may carry outputs.message.message.text ("a"), outputs.message.text      *)
(* ("b"), message.text ("c"), text ("d") and an artifacts object.          *)
(***************************************************************************)
TextProps(s) == {NoProps, "text" :> EmptyStr, "text" :> Lit(s)}

OutputsMessages ==
    {m @@ t : m \in {NoProps} \cup {"message" :> Obj(i) : i \in TextProps("a")},
              t \in TextProps("b")}

OutputsProps ==
    {NoProps, "outputs" :> Obj(NoProps)}
        \cup {"outputs" :> Obj("message" :> Obj(m)) : m \in OutputsMessages}

MessageProps == {NoProps} \cup {"message" :> Obj(t) : t \in TextProps("c")}

ArtifactsProps ==
    {NoProps, "artifacts" :> Obj(NoProps),
     "artifacts" :> Obj("stream_url" :> Lit("/stream/1"))}

ComponentOutputs ==
    {Obj(o @@ m @@ t @@ a) : o \in OutputsProps, m \in MessageProps,
                             t \in TextProps("d"), a \in ArtifactsProps}

\* the values a well-formed JSON body parses to
JsonValues ==
    {Null, Obj(NoProps), Obj("outputs" :> Arr(<<>>)),
     Obj("outputs" :> Arr(<<Obj(NoProps)>>)),
     Obj("outputs" :> Arr(<<Obj("outputs" :> Arr(<<>>))>>))}
        \cup {Obj("outputs" :> Arr(<<Obj("outputs" :> Arr(<<c>>))>>)) :
                c \in ComponentOutputs}

(***************************************************************************)
(* What fetch() delivers: a network failure (fetch rejects), or a response *)
(* with a status and a body that is or is not well-formed JSON.            *)
(***************************************************************************)
Statuses == {200, 404, 500}

StatusText(status) ==
    CASE status = 200 -> "OK"
      [] status = 404 -> "Not Found"
      [] status = 500 -> "Internal Server Error"

\* Response.ok
ResponseOk(status) == status >= 200 /\ status <= 299

InvalidBody == [valid |-> FALSE, json |-> Undefined]
Bodies == {InvalidBody} \cup {[valid |-> TRUE, json |-> j] : j \in JsonValues}

NetworkFailure == [failed |-> TRUE, status |-> 0, body |-> InvalidBody]
FetchOutcomes ==
    {NetworkFailure}
        \cup {[failed |-> FALSE, status |-> s, body |-> b] : s \in Statuses, b \in Bodies}

\* JSON.stringify of a parsed body; members in a fixed key order
KeyOrder == <<"outputs", "message", "text", "artifacts", "stream_url">>

RECURSIVE JoinPieces(_)
JoinPieces(parts) ==
    IF Len(parts) = 0 THEN <<>>
    ELSE IF Len(parts) = 1 THEN parts[1]
    ELSE parts[1] \o <<",">> \o JoinPieces(Tail(parts))

RECURSIVE Stringify(_)
Stringify(x) ==
    CASE x.t = "null" -> <<"null">>
      [] x.t = "string" -> <<"\"">> \o x.v \o <<"\"">>
      [] x.t = "array" ->
            <<"[">> \o JoinPieces([i \in DOMAIN x.v |-> Stringify(x.v[i])]) \o <<"]">>
      [] x.t = "object" ->
            LET keys == SelectSeq(KeyOrder, LAMBDA k : k \in DOMAIN x.v)
            IN <<"{">>
                 \o JoinPieces([i \in DOMAIN keys |->
                        <<"\"", keys[i], "\":">> \o Stringify(x.v[keys[i]])])
                 \o <<"}">>

\* new Error(message) and the TypeError fetch rejects with
Error(message) == Obj("name" :> Lit("Error") @@ "message" :> Str(message))
FetchTypeError == Obj("name" :> Lit("TypeError") @@ "message" :> Lit("Failed to fetch"))

\* a settled promise
Resolved(v) == [kind |-> "resolved", value |-> v]
Rejected(e) == [kind |-> "rejected", value |-> e]

\* post as it would be with the status looked at before the body is parsed
postStatusFirst(outcome) ==
    IF outcome.failed THEN Rejected(FetchTypeError)
    ELSE IF ~ResponseOk(outcome.status)
         THEN Rejected(Error(<<ToString(outcome.status), " ",
                                StatusText(outcome.status), " - ">>
                              \o (IF outcome.body.valid THEN Stringify(outcome.body.json)
                                  ELSE <<>>)))
    ELSE IF ~outcome.body.valid
         THEN Rejected(Error(<<"Invalid JSON response from server">>))
    ELSE Resolved(outcome.body.json)

(***************************************************************************)
(* LangflowClient.post: the body is parsed before the status is looked at. *)
(***************************************************************************)
post(outcome) ==
    IF outcome.failed THEN Rejected(FetchTypeError)
    ELSE IF ~outcome.body.valid
         THEN Rejected(Error(<<"Invalid JSON response from server">>))
    ELSE IF ~ResponseOk(outcome.status)
         THEN Rejected(Error(<<ToString(outcome.status), " ",
                                StatusText(outcome.status), " - ">>
                              \o Stringify(outcome.body.json)))
    ELSE Resolved(outcome.body.json)

initiateSession(outcome) == post(outcome)

(***************************************************************************)
(* LangflowClient.runFlow.  The result names the settled promise, the      *)
(* arguments the error callback was invoked with, and whether handleStream *)
(* was called (and with which url).                                        *)
(***************************************************************************)
RunResult(promise, onErrorArgs, streamUrl) ==
    [kind |-> promise.kind, value |-> promise.value,
     onErrorArgs |-> onErrorArgs, streamUrl |-> streamUrl]

\* the catch block of runFlow: report through the callback, complete normally
runFlowCatch == RunResult(Resolved(Undefined), <<Lit("Error initiating session")>>, Undefined)

runFlow(stream, outcome) ==
    LET init == initiateSession(outcome)
        r == init.value
        outs == Prop(r, "outputs")
        o0 == At(outs, 0)
        oo == Prop(o0, "outputs")
        c == At(oo, 0)
        art == Prop(c, "artifacts")
        url == Prop(art, "stream_url")
    IN IF init.kind = "rejected" THEN runFlowCatch
       ELSE IF ~(stream /\ Truthy(r) /\ Truthy(outs))
            THEN RunResult(Resolved(r), <<>>, Undefined)
       ELSE IF Nullish(o0) \/ Nullish(oo) \/ Nullish(c) \/ Nullish(art)
            THEN runFlowCatch
       ELSE IF Truthy(url) THEN RunResult(Resolved(r), <<>>, url)
       ELSE RunResult(Resolved(r), <<>>, Undefined)

(***************************************************************************)
(* State.                                                                  *)
(*   App (chat):  inputValue, messages, isLoading, error are the React     *)
(*     state of App; pending holds the user messages of the flow requests  *)
(*     in flight; userAt, settled and lastFetch record the latest          *)
(*     submission (the index of its user message, whether its request has  *)
(*     settled, and what fetch delivered to it).                           *)
(*   LangflowClient used directly:  called, callStream, callFetch are the  *)
(*     arguments of one runFlow call, postResult and runResult what post   *)
(*     and runFlow settled with; readyState is the EventSource of          *)
(*     handleStream ("none" before it exists); updateCalls, closeCalls,    *)
(*     errorCalls count the invocations of the three callbacks; events     *)
(*     counts the events the transport has raised.                         *)
(*   Dashboard:  rows, columns, loading, dashError are the React state of  *)
(*     Dashboard; loaded tells that loadData has run and csv what the CSV  *)
(*     resource delivered to it.                                           *)
(***************************************************************************)
VARIABLES inputValue, messages, isLoading, error, pending, userAt, settled, lastFetch,
          called, callStream, callFetch, postResult, runResult,
          readyState, updateCalls, closeCalls, errorCalls, events,
          rows, columns, loading, dashError, loaded, csv

chatVars == <<inputValue, messages, isLoading, error, pending, userAt, settled, lastFetch>>
clientVars == <<called, callStream, callFetch, postResult, runResult,
                readyState, updateCalls, closeCalls, errorCalls, events>>
dashVars == <<rows, columns, loading, dashError, loaded, csv>>
vars == <<chatVars, clientVars, dashVars>>

(***************************************************************************)
(* App.handleSubmit.                                                       *)
(***************************************************************************)
Whitespace == {" "}

RECURSIVE TrimStart(_)
TrimStart(s) ==
    IF Len(s) > 0 /\ Head(s) \in Whitespace THEN TrimStart(Tail(s)) ELSE s

RECURSIVE TrimEnd(_)
TrimEnd(s) ==
    IF Len(s) > 0 /\ s[Len(s)] \in Whitespace THEN TrimEnd(SubSeq(s, 1, Len(s) - 1)) ELSE s

\* String.prototype.trim
Trim(x) == Str(TrimEnd(TrimStart(x.v)))

\* what the user can type into the input
InputValues == {<<>>, <<" ">>, <<"h", "i">>, <<" ", "o", "k", " ">>}

\* the number of user messages sent so far
Submitted == Cardinality({i \in DOMAIN messages : messages[i].type = "user"})

\* the nested if / else-if chain that looks for the reply text
botResponseOf(componentOutput) ==
    LET outputs == Prop(componentOutput, "outputs")
        message == Prop(outputs, "message")
        inner == Prop(message, "message")
        own == Prop(componentOutput, "message")
    IN IF Truthy(outputs) /\ Truthy(message)
       THEN IF Truthy(inner) /\ Truthy(Prop(inner, "text")) THEN Prop(inner, "text")
            ELSE IF Truthy(Prop(message, "text")) THEN Prop(message, "text")
            ELSE EmptyStr
       ELSE IF Truthy(own) /\ Truthy(Prop(own, "text")) THEN Prop(own, "text")
       ELSE IF Truthy(Prop(componentOutput, "text")) THEN Prop(componentOutput, "text")
       ELSE EmptyStr

\* the error callback handleSubmit passes to runFlow: setError(error.message)
onErrorOfSubmit(arg) == Prop(arg, "message")

\* handleSubmitResume as it would be without its outer else branch
handleSubmitResumeNoElse(msgs, err, run) ==
    LET afterCallback ==
            IF Len(run.onErrorArgs) > 0
            THEN onErrorOfSubmit(run.onErrorArgs[Len(run.onErrorArgs)])
            ELSE err
        response == run.value
        outs == Prop(response, "outputs")
        flowOutput == At(outs, 0)
        inner == Prop(flowOutput, "outputs")
        componentOutput == At(inner, 0)
        botResponse == botResponseOf(componentOutput)
    IN IF run.kind = "rejected"
       THEN [messages |-> msgs, error |-> Prop(run.value, "message")]
       ELSE IF Truthy(response) /\ Truthy(outs) /\ Truthy(flowOutput)
                 /\ Truthy(inner) /\ Truthy(componentOutput)
       THEN IF Truthy(botResponse)
            THEN [messages |-> Append(msgs, [type |-> "bot", text |-> botResponse]),
                  error |-> afterCallback]
            ELSE [messages |-> msgs, error |-> Lit("Could not extract bot response")]
       ELSE [messages |-> msgs, error |-> afterCallback]

\* the part of handleSubmit after the await: from the messages and error
\* state and the settled runFlow to the new messages and error state
handleSubmitResume(msgs, err, run) ==
    LET afterCallback ==
            IF Len(run.onErrorArgs) > 0
            THEN onErrorOfSubmit(run.onErrorArgs[Len(run.onErrorArgs)])
            ELSE err
        response == run.value
        outs == Prop(response, "outputs")
        flowOutput == At(outs, 0)
        inner == Prop(flowOutput, "outputs")
        componentOutput == At(inner, 0)
        botResponse == botResponseOf(componentOutput)
    IN IF run.kind = "rejected"
       THEN [messages |-> msgs, error |-> Prop(run.value, "message")]
       ELSE IF Truthy(response) /\ Truthy(outs) /\ Truthy(flowOutput)
       THEN IF Truthy(inner) /\ Truthy(componentOutput)
            THEN IF Truthy(botResponse)
                 THEN [messages |-> Append(msgs, [type |-> "bot", text |-> botResponse]),
                       error |-> afterCallback]
                 ELSE [messages |-> msgs, error |-> Lit("Could not extract bot response")]
            ELSE [messages |-> msgs, error |-> afterCallback]
       ELSE [messages |-> msgs, error |-> Lit("Invalid response from server")]

\* disabled as it would be if the input and the button were never disabled
disabledNever == FALSE

\* the disabled attribute of the input and of the Send button
disabled == isLoading

\* onChange of the input (the input is disabled while isLoading)
setInputValue ==
    /\ ~disabled
    /\ Submitted < MaxSubmits
    /\ \E v \in InputValues : inputValue' = Str(v)
    /\ inputValue' # inputValue
    /\ UNCHANGED <<messages, isLoading, error, pending, userAt, settled, lastFetch>>
    /\ UNCHANGED <<clientVars, dashVars>>

\* handleSubmit as it would be without the test of inputValue.trim()
handleSubmitNoTrim ==
    /\ ~disabled
    /\ Submitted < MaxSubmits
    /\ isLoading' = TRUE
    /\ error' = EmptyStr
    /\ messages' = Append(messages, [type |-> "user", text |-> inputValue])
    /\ inputValue' = EmptyStr
    /\ pending' = Append(pending, inputValue)
    /\ userAt' = Len(messages) + 1
    /\ settled' = FALSE
    /\ lastFetch' = NetworkFailure
    /\ UNCHANGED <<clientVars, dashVars>>

\* handleSubmit up to the await (Send and Enter are disabled while isLoading)
handleSubmit ==
    /\ ~disabled
    /\ Submitted < MaxSubmits
    /\ IF ~Truthy(Trim(inputValue))
       THEN UNCHANGED chatVars
       ELSE /\ isLoading' = TRUE
            /\ error' = EmptyStr
            /\ messages' = Append(messages, [type |-> "user", text |-> inputValue])
            /\ inputValue' = EmptyStr
            /\ pending' = Append(pending, inputValue)
            /\ userAt' = Len(messages) + 1
            /\ settled' = FALSE
            /\ lastFetch' = NetworkFailure
    /\ UNCHANGED <<clientVars, dashVars>>

\* the request of the oldest pending submission settles and handleSubmit runs
\* to its end (runFlow is called with stream = false)
handleSubmitSettled ==
    /\ Len(pending) > 0
    /\ \E outcome \in FetchOutcomes :
         LET res == handleSubmitResume(messages, error, runFlow(FALSE, outcome))
         IN /\ messages' = res.messages
            /\ error' = res.error
            /\ lastFetch' = outcome
    /\ isLoading' = FALSE
    /\ pending' = Tail(pending)
    /\ settled' = TRUE
    /\ UNCHANGED <<inputValue, userAt>>
    /\ UNCHANGED <<clientVars, dashVars>>

(***************************************************************************)
(* LangflowClient.handleStream and the EventSource it creates.             *)
(***************************************************************************)
\* new EventSource(streamUrl)
handleStream(streamUrl) == "CONNECTING"

\* an EventSource dispatches events only while it is not CLOSED
Dispatching == readyState \in {"CONNECTING", "OPEN"}

\* eventSource.onmessage: JSON.parse(event.data) throws on malformed data,
\* and then onUpdate is not reached
onmessage(es, dataValid) ==
    IF dataValid THEN [es EXCEPT !.updateCalls = @ + 1] ELSE es

\* onerror as it would be without eventSource.close()
onerrorNoClose(es) == [es EXCEPT !.errorCalls = @ + 1]

\* eventSource.onerror: onError(event); eventSource.close()
onerror(es) == [es EXCEPT !.errorCalls = @ + 1, !.readyState = "CLOSED"]

\* the listener of the named "close" event: onClose(...); eventSource.close()
onclose(es) == [es EXCEPT !.closeCalls = @ + 1, !.readyState = "CLOSED"]

EventSourceState ==
    [readyState |-> readyState, updateCalls |-> updateCalls,
     closeCalls |-> closeCalls, errorCalls |-> errorCalls]

SetEventSource(es, kind) ==
    /\ readyState' = es.readyState
    /\ updateCalls' = es.updateCalls
    /\ closeCalls' = es.closeCalls
    /\ errorCalls' = es.errorCalls
    /\ events' = Append(events, kind)
    /\ UNCHANGED <<called, callStream, callFetch, postResult, runResult>>
    /\ UNCHANGED <<chatVars, dashVars>>

\* one call of runFlow with counting callbacks
callRunFlow ==
    /\ ~called
    /\ \E stream \in BOOLEAN, outcome \in FetchOutcomes :
         LET run == runFlow(stream, outcome)
         IN /\ callStream' = stream
            /\ callFetch' = outcome
            /\ postResult' = post(outcome)
            /\ runResult' = run
            /\ errorCalls' = Len(run.onErrorArgs)
            /\ readyState' = IF run.streamUrl = Undefined THEN "none"
                             ELSE handleStream(run.streamUrl)
    /\ called' = TRUE
    /\ UNCHANGED <<updateCalls, closeCalls, events>>
    /\ UNCHANGED <<chatVars, dashVars>>

\* the connection is established (no listener for "open")
esOpen ==
    /\ readyState = "CONNECTING"
    /\ Len(events) < MaxEvents
    /\ SetEventSource([EventSourceState EXCEPT !.readyState = "OPEN"], "open")

\* a data event arrives
esMessage ==
    /\ readyState = "OPEN"
    /\ Len(events) < MaxEvents
    /\ \E dataValid \in BOOLEAN :
         SetEventSource(onmessage(EventSourceState, dataValid), "message")

\* the server sends the named event "close"
esCloseEvent ==
    /\ readyState = "OPEN"
    /\ Len(events) < MaxEvents
    /\ SetEventSource(onclose(EventSourceState), "close")

\* a transport error: the user agent either fails the connection (CLOSED) or
\* starts to reconnect (CONNECTING), and fires the error event
esError ==
    /\ Dispatching
    /\ Len(events) < MaxEvents
    /\ \E after \in {"CLOSED", "CONNECTING"} :
         SetEventSource(onerror([EventSourceState EXCEPT !.readyState = after]), "error")

(***************************************************************************)
(* Dashboard: what the CSV resource delivers.  fetch is rejected, or it    *)
(* answers with a status; Papa.parse (header, dynamicTyping,               *)
(* skipEmptyLines) then reports a number of errors and the data.  Every    *)
(* record of a CSV parsed without error has the fields of the header: an   *)
(* empty field is null, a number a number, other text a string.  A record  *)
(* without any field stands for a blank record.                            *)
(***************************************************************************)
\* the columns the header rows explored choose among
CsvColumns == {"Post_Type", "Likes", "Shares"}

\* the order of the columns in a header row
ColumnOrder == <<"Post_Id", "Post_Type", "Views", "Likes", "Shares">>

CellValues(column) ==
    CASE column = "Post_Type" -> {Null, Lit("null"), Lit("video")}
      [] column = "Likes" -> {Null, Num(1), Num(2)}
      [] column = "Shares" -> {Null, Num(1)}

AllCellValues == UNION {CellValues(c) : c \in CsvColumns}

BlankRecord == Obj(NoProps)

RecordsOf(header) ==
    {BlankRecord}
        \cup {Obj(f) : f \in {g \in [header -> AllCellValues] :
                                \A c \in header : g[c] \in CellValues(c)}}

DataOf(header) == UNION {[1..n -> RecordsOf(header)] : n \in 0..MaxRows}

Unreachable == [reachable |-> FALSE, status |-> 0, errors |-> 0, data |-> <<>>]
CsvOutcomes ==
    {Unreachable, [reachable |-> TRUE, status |-> 404, errors |-> 0, data |-> <<>>]}
        \cup {[reachable |-> TRUE, status |-> 200, errors |-> e, data |-> d] :
                e \in 0..1, d \in UNION {DataOf(h) : h \in SUBSET CsvColumns \ {{}}}}

(***************************************************************************)
(* Dashboard.loadData.                                                     *)
(***************************************************************************)
\* key.replace(/_/g, ' ') on the column names
HeaderName(key) ==
    CASE key = "Post_Id" -> "Post Id"
      [] key = "Post_Type" -> "Post Type"
      [] OTHER -> key

\* Object.keys of a record, in header order
Keys(row) == SelectSeq(ColumnOrder, LAMBDA k : k \in DOMAIN row.v)

\* the filter of the complete callback
IsValidRow(row) == Truthy(row) /\ row.t = "object" /\ Len(Keys(row)) > 0

\* the state of Dashboard as one record
DashState == [rows |-> rows, columns |-> columns, loading |-> loading, error |-> dashError]

\* complete as it would be without the check of results.errors
completeIgnoringErrors(st, results) ==
    LET validData == SelectSeq(results.data, IsValidRow)
        cols == [i \in DOMAIN Keys(validData[1]) |->
                    [field |-> Keys(validData[1])[i],
                     headerName |-> HeaderName(Keys(validData[1])[i]),
                     width |-> 150, editable |-> FALSE]]
        dataRows == [i \in DOMAIN validData |->
                        Obj(validData[i].v @@
                            ("id" :> (IF Truthy(Prop(validData[i], "Post_Id"))
                                      THEN Prop(validData[i], "Post_Id")
                                      ELSE Num(i))))]
    IN IF Len(validData) = 0
       THEN [st EXCEPT !.error = Lit("No valid data found in CSV")]
       ELSE [st EXCEPT !.columns = cols, !.rows = dataRows, !.loading = FALSE]

\* the complete callback of Papa.parse
complete(st, results) ==
    LET validData == SelectSeq(results.data, IsValidRow)
        cols == [i \in DOMAIN Keys(validData[1]) |->
                    [field |-> Keys(validData[1])[i],
                     headerName |-> HeaderName(Keys(validData[1])[i]),
                     width |-> 150, editable |-> FALSE]]
        dataRows == [i \in DOMAIN validData |->
                        Obj(validData[i].v @@
                            ("id" :> (IF Truthy(Prop(validData[i], "Post_Id"))
                                      THEN Prop(validData[i], "Post_Id")
                                      ELSE Num(i))))]
    IN IF results.errors > 0 THEN [st EXCEPT !.error = Lit("Error parsing CSV data")]
       ELSE IF Len(validData) = 0
            THEN [st EXCEPT !.error = Lit("No valid data found in CSV")]
       ELSE [st EXCEPT !.columns = cols, !.rows = dataRows, !.loading = FALSE]

\* the effect of loadData on the state of Dashboard
loadDataResult(st, outcome) ==
    IF ~outcome.reachable
    THEN [st EXCEPT !.error = Str(<<"Error loading CSV file: ", "Failed to fetch">>),
                    !.loading = FALSE]
    ELSE IF ~ResponseOk(outcome.status)
    THEN [st EXCEPT !.error = Str(<<"Error loading CSV file: ", "Failed to load CSV file: ",
                                    StatusText(outcome.status)>>),
                    !.loading = FALSE]
    ELSE complete(st, [errors |-> outcome.errors, data |-> outcome.data])

\* the effect of mounting Dashboard
loadData ==
    /\ ~loaded
    /\ \E outcome \in CsvOutcomes :
         LET st == loadDataResult(DashState, outcome)
         IN /\ rows' = st.rows
            /\ columns' = st.columns
            /\ loading' = st.loading
            /\ dashError' = st.error
            /\ csv' = outcome
    /\ loaded' = TRUE
    /\ UNCHANGED <<chatVars, clientVars>>

(***************************************************************************)
(* Dashboard: the derived views, functions of rows.                        *)
(***************************************************************************)
\* a + b for operands that are numbers, null, undefined or NaN
Add(a, b) ==
    IF a.t \in {"undefined", "NaN"} \/ b.t \in {"undefined", "NaN"} THEN NaN
    ELSE Num((IF a.t = "number" THEN a.v ELSE 0) + (IF b.t = "number" THEN b.v ELSE 0))

\* x || 0
OrZero(x) == IF Truthy(x) THEN x ELSE Num(0)

\* Math.round(sum / n) for a sum that is not negative: halves round up
RoundedQuotient(sum, n) ==
    IF sum.t = "NaN" THEN NaN ELSE Num((2 * sum.v + n) \div (2 * n))

\* the conversion of a value to a property key
PropertyKey(x) ==
    CASE x.t = "undefined" -> <<"undefined">>
      [] x.t = "null" -> <<"null">>
      [] x.t = "number" -> <<ToString(x.v)>>
      [] x.t = "string" -> x.v

\* reduce((sum, v) => sum + v, sum) over the values taken from the rows
RECURSIVE SumOver(_, _)
SumOver(values, sum) ==
    IF Len(values) = 0 THEN sum ELSE SumOver(Tail(values), Add(sum, Head(values)))

\* the values of Post_Type in order of first appearance: [...new Set(...)]
RECURSIVE DistinctTypes(_, _)
DistinctTypes(rs, seen) ==
    IF Len(rs) = 0 THEN seen
    ELSE LET ty == Prop(Head(rs), "Post_Type")
         IN DistinctTypes(Tail(rs),
                IF \E i \in DOMAIN seen : seen[i] = ty THEN seen ELSE Append(seen, ty))

getStats(rs) ==
    [totalPosts |-> Len(rs),
     uniqueTypes |-> Len(DistinctTypes(rs, <<>>)),
     totalViews |-> SumOver([i \in DOMAIN rs |-> OrZero(Prop(rs[i], "Views"))], Num(0)),
     totalLikes |-> SumOver([i \in DOMAIN rs |-> OrZero(Prop(rs[i], "Likes"))], Num(0))]

\* postTypeCounts after the forEach, as its entries in insertion order
RECURSIVE PostTypeCounts(_, _)
PostTypeCounts(rs, counts) ==
    IF Len(rs) = 0 THEN counts
    ELSE LET key == PropertyKey(Prop(Head(rs), "Post_Type"))
         IN PostTypeCounts(Tail(rs),
                IF \E i \in DOMAIN counts : counts[i].name = key
                THEN [i \in DOMAIN counts |->
                        IF counts[i].name = key
                        THEN [counts[i] EXCEPT !.value = @ + 1]
                        ELSE counts[i]]
                ELSE Append(counts, [name |-> key, value |-> 1]))

getPostTypeStats(rs) == PostTypeCounts(rs, <<>>)

getAverageEngagement(rs) ==
    LET postTypes == DistinctTypes(rs, <<>>)
    IN [i \in DOMAIN postTypes |->
          LET posts == SelectSeq(rs, LAMBDA row : Prop(row, "Post_Type") = postTypes[i])
          IN [name |-> postTypes[i],
              likes |-> RoundedQuotient(
                            SumOver([j \in DOMAIN posts |-> Prop(posts[j], "Likes")], Num(0)),
                            Len(posts)),
              shares |-> RoundedQuotient(
                            SumOver([j \in DOMAIN posts |-> Prop(posts[j], "Shares")], Num(0)),
                            Len(posts))]]

(***************************************************************************)
(* Specifications.                                                         *)
(***************************************************************************)
ChatInit ==
    /\ inputValue = EmptyStr
    /\ messages = <<>>
    /\ isLoading = FALSE
    /\ error = EmptyStr
    /\ pending = <<>>
    /\ userAt = 0
    /\ settled = FALSE
    /\ lastFetch = NetworkFailure

ClientInit ==
    /\ called = FALSE
    /\ callStream = FALSE
    /\ callFetch = NetworkFailure
    /\ postResult = Resolved(Undefined)
    /\ runResult = RunResult(Resolved(Undefined), <<>>, Undefined)
    /\ readyState = "none"
    /\ updateCalls = 0
    /\ closeCalls = 0
    /\ errorCalls = 0
    /\ events = <<>>

DashInit ==
    /\ rows = <<>>
    /\ columns = <<>>
    /\ loading = TRUE
    /\ dashError = Null
    /\ loaded = FALSE
    /\ csv = Unreachable

Init == ChatInit /\ ClientInit /\ DashInit

\* the chat
Next == setInputValue \/ handleSubmit \/ handleSubmitSettled
Spec == Init /\ [][Next]_vars

\* LangflowClient called directly, with either value of the stream flag
NextClient == callRunFlow \/ esOpen \/ esMessage \/ esCloseEvent \/ esError
SpecClient == Init /\ [][NextClient]_vars

\* the dashboard
NextDash == loadData
SpecDash == Init /\ [][NextDash]_vars

(***************************************************************************)
(* Properties of LangflowClient, stated of SpecClient.                     *)
(***************************************************************************)
\* the message of the error a promise was rejected with
MessageOf(promise) == Prop(promise.value, "message").v

\* the error of line 34: its message starts with a status code
IsHttpError(promise) ==
    /\ promise.kind = "rejected"
    /\ Head(MessageOf(promise)) \in {ToString(st) : st \in Statuses}

\* the error of line 30
IsProtocolError(promise) ==
    /\ promise.kind = "rejected"
    /\ MessageOf(promise) = <<"Invalid JSON response from server">>

\* the response of the call arrived and its status is not 2xx
NonOkResponse == called /\ ~callFetch.failed /\ ~ResponseOk(callFetch.status)

\* the response of the call arrived and its body is not JSON
InvalidBodyResponse == called /\ ~callFetch.failed /\ ~callFetch.body.valid

\* C1: whenever the status is not 2xx, whatever the body, post is rejected
\* with an HTTP error whose message carries the status code.
C1_NonOkIsHttpError ==
    NonOkResponse =>
        /\ IsHttpError(postResult)
        /\ Head(MessageOf(postResult)) = ToString(callFetch.status)

\* C2: a body that is not JSON is rejected with the protocol error; the
\* protocol error is produced only for a body that is not JSON and the HTTP
\* error only for a non-2xx status with a JSON body, so the two never stand
\* for each other's cause and no rejection is both.
C2_ProtocolErrorDistinct ==
    called =>
        /\ InvalidBodyResponse => IsProtocolError(postResult)
        /\ IsProtocolError(postResult) => InvalidBodyResponse
        /\ IsHttpError(postResult) => (NonOkResponse /\ callFetch.body.valid)
        /\ ~(IsProtocolError(postResult) /\ IsHttpError(postResult))

\* a non-2xx response with a body that is not JSON was rejected by post
C2_Witness ==
    /\ InvalidBodyResponse
    /\ callFetch.status = 500
    /\ postResult.kind = "rejected"

\* C5: whenever the remote call fails, runFlow's promise is rejected.
C5_FailureRejectsRunFlow ==
    (called /\ postResult.kind = "rejected") => runResult.kind = "rejected"

\* the number of events of a kind the transport has raised
CountEvents(kind) == Cardinality({i \in DOMAIN events : events[i] = kind})

\* C7: on a subscription, the error callback is invoked once per transport
\* error, a transport error is the last event of the subscription and leaves
\* it CLOSED with the error callback invoked exactly once, and the update
\* and close callbacks are invoked only by message and close events.
C7_ErrorOnceThenSilent ==
    readyState # "none" =>
        /\ errorCalls = CountEvents("error")
        /\ updateCalls <= CountEvents("message")
        /\ closeCalls = CountEvents("close")
        /\ \A i \in DOMAIN events :
             events[i] = "error" =>
                 /\ i = Len(events)
                 /\ readyState = "CLOSED"
                 /\ errorCalls = 1

\* an open subscription that delivered an update met a transport error
C7_Witness ==
    /\ events = <<"open", "message", "error">>
    /\ updateCalls = 1
    /\ errorCalls = 1
    /\ readyState = "CLOSED"

\* C12: whenever initiateSession succeeds, runFlow completes with the
\* initial response and has not invoked the error callback, whatever the
\* stream flag and the shape of the response.
C12_SuccessReturnsInitResponse ==
    (called /\ postResult.kind = "resolved") =>
        /\ Len(runResult.onErrorArgs) = 0
        /\ runResult.kind = "resolved"
        /\ runResult.value = postResult.value

(***************************************************************************)
(* Properties of handleSubmit, stated of Spec.                              *)
(***************************************************************************)
\* what fetch delivered to the latest submission is a failure of the call
RemoteFailure ==
    lastFetch.failed \/ ~lastFetch.body.valid \/ ~ResponseOk(lastFetch.status)

\* x.k1.k2... with undefined for a missing step
RECURSIVE Path(_, _)
Path(x, keys) ==
    IF Len(keys) = 0 THEN x
    ELSE IF Nullish(x) THEN Undefined
    ELSE Path(Prop(x, Head(keys)), Tail(keys))

\* the first output's first nested output of a response
ComponentOf(response) == At(Path(At(Path(response, <<"outputs">>), 0), <<"outputs">>), 0)

\* the four places of a reply text, in the order of the search
ReplyCandidates(c) ==
    <<Path(c, <<"outputs", "message", "message", "text">>),
      Path(c, <<"outputs", "message", "text">>),
      Path(c, <<"message", "text">>),
      Path(c, <<"text">>)>>

RECURSIVE FirstNonEmpty(_)
FirstNonEmpty(candidates) ==
    IF Len(candidates) = 0 THEN EmptyStr
    ELSE IF Truthy(Head(candidates)) THEN Head(candidates)
    ELSE FirstNonEmpty(Tail(candidates))

\* the latest submission has settled on a successful call
SettledOnSuccess == settled /\ ~RemoteFailure

\* no bot message was appended for the latest submission
NoBotMessage == Len(messages) = userAt

\* the bot message appended for the latest submission is text
BotMessageIs(text) ==
    /\ Len(messages) = userAt + 1
    /\ messages[userAt + 1] = [type |-> "bot", text |-> text]

\* the error state shows a message
ErrorShown == error.t = "string" /\ Truthy(error)

\* C3: for every component output the reply is the first non-empty text
\* among outputs.message.message.text, outputs.message.text, message.text
\* and text, also when outputs.message exists without a non-empty text.
C3_FirstNonEmptyOfFour ==
    (SettledOnSuccess /\ Truthy(ComponentOf(lastFetch.body.json))) =>
        LET want == FirstNonEmpty(ReplyCandidates(ComponentOf(lastFetch.body.json)))
        IN IF Truthy(want) THEN BotMessageIs(want) ELSE NoBotMessage

\* C4: a successful call from which no reply text was extracted ends with a
\* non-empty error state.
C4_NoReplyShowsError ==
    (SettledOnSuccess /\ NoBotMessage) => ErrorShown

\* C6: a submission whose remote call failed ends with a non-empty error
\* message and with the messages grown by the one user message only.
C6_FailureShowsErrorNoBot ==
    (settled /\ RemoteFailure) =>
        /\ ErrorShown
        /\ NoBotMessage
        /\ messages[userAt].type = "user"

\* the second submission of a chat failed with status 500 after the first
\* one had been answered
C6_Witness ==
    /\ settled
    /\ ~lastFetch.failed
    /\ lastFetch.status = 500
    /\ userAt = 3
    /\ messages[2].type = "bot"
    /\ error = Lit("Invalid response from server")

\* C11: at most one flow request is in flight; every bot message directly
\* follows a user message, and while a request is pending the user message
\* of its exchange is the last message, so its reply will follow it.
C11_OneInFlightNoInterleaving ==
    /\ Len(pending) <= 1
    /\ \A i \in DOMAIN messages :
         messages[i].type = "bot" => (i > 1 /\ messages[i - 1].type = "user")
    /\ Len(pending) = 1 =>
         (Len(messages) = userAt /\ messages[userAt].type = "user")

\* a second submission is pending after the first one was answered
C11_Witness ==
    /\ Len(pending) = 1
    /\ isLoading
    /\ Len(messages) = 3
    /\ messages[2].type = "bot"

\* the input is empty or holds whitespace only
BlankInput == ~Truthy(Trim(inputValue))

\* C13: isLoading is true exactly while a request is pending; the step in
\* which a request settles, whatever it settles with, leaves isLoading
\* false; and while the input is blank no step (a submission included)
\* changes the messages, the loading flag, the error or the requests.
C13_LoadingExactlyWhilePending ==
    /\ [](isLoading <=> Len(pending) > 0)
    /\ [][Len(pending') < Len(pending) => ~isLoading']_vars
    /\ [][(~isLoading /\ BlankInput) =>
            UNCHANGED <<messages, isLoading, error, pending, userAt, settled>>]_vars

\* a request has settled and the user has typed whitespace since
C13_Witness ==
    /\ settled
    /\ ~isLoading
    /\ Len(pending) = 0
    /\ Len(messages) >= 1
    /\ inputValue = Str(<<" ">>)

(***************************************************************************)
(* Properties of Dashboard, stated of SpecDash.                             *)
(***************************************************************************)
\* the values of Post_Type that occur in the rows
PostTypesOf(rs) == {Prop(rs[i], "Post_Type") : i \in DOMAIN rs}

\* the rows of a type
RowsOfType(rs, ty) == SelectSeq(rs, LAMBDA row : Prop(row, "Post_Type") = ty)

RECURSIVE SumOfCounts(_)
SumOfCounts(entries) ==
    IF Len(entries) = 0 THEN 0 ELSE Head(entries).value + SumOfCounts(Tail(entries))

\* C8: getPostTypeStats emits one entry per distinct value of Post_Type, and
\* its counts add up to rows.length, which is getStats().totalPosts.
C8_OneEntryPerTypeSumIsTotal ==
    loaded =>
        /\ Len(getPostTypeStats(rows)) = Cardinality(PostTypesOf(rows))
        /\ SumOfCounts(getPostTypeStats(rows)) = Len(rows)
        /\ getStats(rows).totalPosts = Len(rows)

\* the sum of a field over rows, a row without a number there counting 0
RECURSIVE SumOrZero(_, _)
SumOrZero(rs, field) ==
    IF Len(rs) = 0 THEN 0
    ELSE (IF Prop(Head(rs), field).t = "number" THEN Prop(Head(rs), field).v ELSE 0)
            + SumOrZero(Tail(rs), field)

\* the integer nearest to sum / n
NearestInteger(sum, n) == (2 * sum + n) \div (2 * n)

\* an emitted average is the number k
IsNumber(x, k) == x.t = "number" /\ x.v = k

\* C9: getAverageEngagement emits exactly the types that have a row, and
\* for each the rounded mean of Likes and of Shares over its rows, a row
\* without Likes or Shares counting 0.
C9_RoundedMeanMissingAsZero ==
    loaded =>
        LET avg == getAverageEngagement(rows)
        IN /\ {avg[i].name : i \in DOMAIN avg} = PostTypesOf(rows)
           /\ \A i \in DOMAIN avg :
                LET posts == RowsOfType(rows, avg[i].name)
                IN /\ Len(posts) > 0
                   /\ IsNumber(avg[i].likes,
                               NearestInteger(SumOrZero(posts, "Likes"), Len(posts)))
                   /\ IsNumber(avg[i].shares,
                               NearestInteger(SumOrZero(posts, "Shares"), Len(posts)))

\* the records of the CSV that are not blank
NonBlank(data) == SelectSeq(data, LAMBDA r : DOMAIN r.v # {})

\* one of the failures of the load: unreachable, a non-success status, a
\* parser error, no record left
LoadFails ==
    \/ ~csv.reachable
    \/ ~ResponseOk(csv.status)
    \/ csv.errors > 0
    \/ Len(NonBlank(csv.data)) = 0

\* C10: a load that fails ends with an error shown and no rows; rows are set
\* only by a load that does not fail, and then to the records that are not
\* blank, without an error.
C10_FailedLoadShowsErrorNoRows ==
    loaded =>
        /\ LoadFails => (dashError.t = "string" /\ Truthy(dashError) /\ Len(rows) = 0)
        /\ Len(rows) > 0 => ~LoadFails
        /\ ~LoadFails => (Len(rows) = Len(NonBlank(csv.data)) /\ dashError = Null)

\* a CSV that parsed without error into two blank records
C10_Witness ==
    /\ loaded
    /\ csv.reachable /\ csv.status = 200 /\ csv.errors = 0
    /\ csv.data = <<BlankRecord, BlankRecord>>
    /\ dashError = Lit("No valid data found in CSV")
    /\ Len(rows) = 0
=============================================================================
